---- MODULE Spec2Model ----
(***************************************************************************)
(* Model of the document retrieval core of portrait-sdk (src/src/helpers.ts)*)
(* fetchPortrait races fetchPortraitFromIPFS (one GET per gateway) against  *)
(* fetchPortraitFromArweave (paginated index search, one object GET per     *)
(* candidate).  The network is the environment: every response is chosen    *)
(* nondeterministically.  One action is one callback of the event loop      *)
(* together with the promise reactions it triggers.                         *)
(***************************************************************************)
EXTENDS Integers, Sequences, FiniteSets, TLC

\* ---------------------------------------------------------------- bounds
\* largest gateway list handed to fetchPortrait
NumMirrors == 2
\* the index stops returning full pages once this many queries were issued
MaxPages == 3

\* ------------------------------------------------------ program constants
\* helpers.ts:419  edges.length === 10, and edges[9] is the 10th edge
PageSize == 10
\* helpers.ts:451  CID.createV1(0x55, digest): the "raw" codec
RawCodec == 85

\* ------------------------------------------------------------ byte strings
\* The bodies a gateway or the archive can deliver: two serialisations of
\* the same JSON value, another JSON value, and a body that is not JSON.
T1 == "{\"a\":1}"
T1w == "{ \"a\": 1 }"
T2 == "{\"a\":2}"
THtml == "<html>"
Texts == {T1, T1w, T2, THtml}

\* the documents a call asks for: the registry holds the identifier of the
\* bytes that were published, which need not be the canonical serialisation
Requested == {T1w}

\* JSON.parse / response.json(): defined on the parseable texts only
Parseable(text) == text \in {T1, T1w, T2}
JSONparse(text) == IF text \in {T1, T1w} THEN [a |-> 1] ELSE [a |-> 2]
\* JSON.stringify: the canonical serialisation, without whitespace
JSONstringify(value) == IF value.a = 1 THEN T1 ELSE T2

\* ------------------------------------------------------------- JS values
Undefined == [t |-> "undefined", v |-> 0]
JSBool(b) == [t |-> "boolean", v |-> b]
\* a JS string holding the textual form of a CID (the form the registry
\* delivers); base is the multibase of the text, cid the identifier it encodes
CIDString(base, cid) == [t |-> "string", base |-> base, cid |-> cid]
\* a promise already resolved with x, as an async function returns it
PromiseOf(x) == [t |-> "object", promise |-> x]
\* await p
Await(p) == p.promise
\* the condition of an if statement: every object (a promise too) is truthy;
\* undefined, null, 0, NaN and the empty string are not
Truthy(v) ==
    IF v.t = "boolean" THEN v.v
    ELSE IF v.t = "number" THEN v.v # 0
    ELSE IF v.t = "string" THEN v.v # ""
    ELSE v.t = "object"
\* v[p] on a JS value: a property the value does not have reads as undefined
Prop(v, p) == IF v.t = "object" /\ p \in DOMAIN v THEN [t |-> "value", v |-> v[p]] ELSE Undefined
\* a === b
StrictEq(a, b) == a.t = b.t /\ (a.t = "value" => a.v = b.v)

\* ---------------------------------------------------------- multiformats
\* sha256.digest(bytes): a multihash (code 0x12); the digest is modelled by
\* its preimage, i.e. the hash is collision free
Sha256(bytes) == [code |-> 18, digest |-> bytes]
\* CID.createV1(code, digest)
CIDcreateV1(code, digest) == [t |-> "object", code |-> code, version |-> 1, multihash |-> digest]
\* CID.equals(self, other): field-wise comparison of self with other
CIDequals(self, other) ==
    /\ other.t # "undefined"
    /\ StrictEq(Prop(self, "code"), Prop(other, "code"))
    /\ StrictEq(Prop(self, "version"), Prop(other, "version"))
    /\ StrictEq(Prop(self, "multihash"), Prop(other, "multihash"))

\* ipfsHashCollision(ipfsHash, json): an async function, so a promise
ipfsHashCollision(ipfsHash, json) ==
    PromiseOf(JSBool(CIDequals(CIDcreateV1(RawCodec, Sha256(json)), ipfsHash)))

\* the bytes hash to the identifier the string encodes (what verification
\* is meant to decide; not computed by the program)
HashesTo(bytes, ipfsHash) == ipfsHash.cid = CIDcreateV1(RawCodec, Sha256(bytes))

\* ---------------------------------------------------------------- errors
Err(kind, src) == [kind |-> kind, src |-> src, errors |-> << >>]
NoError == Err("none", 0)
\* the AggregateError Promise.any rejects with
AggregateError(errors) == [kind |-> "AggregateError", src |-> 0, errors |-> errors]

\* -------------------------------------------------------------- promises
\* value: the parsed document, with the bytes it was obtained from
Doc(json, bytes) == [json |-> json, bytes |-> bytes]
NoDoc == Doc([a |-> 0], "")
NotCreated == [st |-> "none", value |-> NoDoc, reason |-> NoError]
Pending == [st |-> "pending", value |-> NoDoc, reason |-> NoError]
Fulfilled(value) == [st |-> "fulfilled", value |-> value, reason |-> NoError]
Rejected(reason) == [st |-> "rejected", value |-> NoDoc, reason |-> reason]
Settled(p) == p.st \in {"fulfilled", "rejected"}

\* Promise.any(ps) one reaction later: prev is the combinator's own state.
\* At most one input settles per callback, so a pending combinator sees at
\* most one fulfilled input.
PromiseAny(ps, prev) ==
    IF Settled(prev) THEN prev
    ELSE IF \E i \in DOMAIN ps : ps[i].st = "fulfilled"
         THEN Fulfilled(ps[CHOOSE i \in DOMAIN ps : ps[i].st = "fulfilled"].value)
    ELSE IF \A i \in DOMAIN ps : ps[i].st = "rejected"
         THEN Rejected(AggregateError([i \in DOMAIN ps |-> ps[i].reason]))
    ELSE Pending

\* ------------------------------------------------------------------ state
VARIABLES
    ipfsHash,      \* argument: the requested identifier, a string
    author,        \* argument ethereumAddress: an address, or "" when absent
    ipfsGateways,  \* argument: the gateway list, <<1, .., n>>
    gateway,       \* promise of fetchPortraitFromIPFSGateway, per gateway
    ipfs,          \* helpers.ts:281  Promise.any over the gateways
    ipfsRace,      \* helpers.ts:286  promise fetchPortraitFromIPFS returns
    arweave,       \* promise fetchPortraitFromArweave returns
    portrait,      \* helpers.ts:250  promise fetchPortrait returns
    arPc,          \* where the archive search is suspended
    edges,         \* jsonResponse.data.transactions.edges of the current page
    idx,           \* position in edges of the candidate being fetched
    mirrorGets,    \* outbound requests: gateway GETs issued
    queries,       \* outbound requests: the cursor of each index query issued
    objectGets,    \* outbound requests: archive object GETs issued
    page,          \* index pages received so far
    payloads,      \* archive payloads received so far
    lastMatch,     \* the payload most recently received from the archive hashes to ipfsHash
    matchBefore,   \* a payload received before that one hashed to ipfsHash
    firstBranch,   \* the branch of fetchPortrait that fulfilled first
    call           \* the call of a helper or SDK method made last, with its outcome

\* the state of one fetchPortrait call
fetchVars == <<ipfsHash, author, ipfsGateways, gateway, ipfs, ipfsRace, arweave,
               portrait, arPc, edges, idx, mirrorGets, queries, objectGets,
               page, payloads, lastMatch, matchBefore, firstBranch>>

vars == <<fetchVars, call>>

\* what no step of fetchPortrait writes
inputs == <<ipfsHash, author, ipfsGateways, call>>

\* no helper or method called yet
NoCall == [fn |-> "none"]

\* the cursor argument of the first query: absent
NoCursor == [page |-> 0, pos |-> 0]
\* the edges of the p-th page when it holds n candidates: ids and cursors
\* are opaque and distinct
Edges(p, n) == [j \in 1..n |-> [id |-> <<p, j>>, cursor |-> [page |-> p, pos |-> j]]]

\* helpers.ts:362-401: the index query built for a cursor.  A paging or
\* author argument that is not given is the literal the concatenation yields.
Query(hash, auth, cursor) ==
    [paging |-> IF cursor # NoCursor
                THEN [first |-> PageSize, after |-> cursor]
                ELSE [literal |-> "null"],
     sort |-> "HEIGHT_ASC",
     protocol |-> "Portrait",
     ipfsAdd |-> hash,
     authorTag |-> IF auth # "" THEN [name |-> "Author", value |-> auth]
                   ELSE [literal |-> "null"]]

\* what the network can answer to a gateway GET or an archive object GET:
\* a transport failure, or a response with a status and a body
Responses ==
    {[err |-> TRUE, ok |-> FALSE, text |-> ""]}
    \cup {[err |-> FALSE, ok |-> o, text |-> t] : o \in BOOLEAN, t \in Texts}

\* the page lengths the index answers with: empty, short, one short of full,
\* full, and more than the program expects
PageLens == {0, 1, PageSize - 1, PageSize, PageSize + 1}

\* what the index can answer to a query: a transport failure, a body that is
\* not JSON, JSON without data.transactions, or a page of n edges
IndexResponses ==
    {[kind |-> k, n |-> 0] : k \in {"network", "notjson", "nodata"}}
    \cup {[kind |-> "page", n |-> n] : n \in PageLens}

Init ==
    /\ ipfsHash \in {CIDString("base32", CIDcreateV1(RawCodec, Sha256(t))) : t \in Requested}
    /\ author \in {"", "0xA"}
    /\ ipfsGateways \in {[i \in 1..n |-> i] : n \in 0..NumMirrors}
    /\ gateway = [i \in DOMAIN ipfsGateways |-> NotCreated]
    /\ ipfs = NotCreated
    /\ ipfsRace = NotCreated
    /\ arweave = NotCreated
    /\ portrait = NotCreated
    /\ arPc = "idle"
    /\ edges = << >>
    /\ idx = 0
    /\ mirrorGets = 0
    /\ queries = << >>
    /\ objectGets = 0
    /\ page = 0
    /\ payloads = 0
    /\ lastMatch = FALSE
    /\ matchBefore = FALSE
    /\ firstBranch = "none"
    /\ call = NoCall

\* ------------------------------------------------------------- the mirrors
\* helpers.ts:320: the text handed to ipfsHashCollision for a body that
\* parsed to the given value
VerifiedText(parsed, body) == JSONstringify(parsed)

\* variant: a gateway fetch that reads the body whatever the status
fetchPortraitFromIPFSGateway_AnyStatus(ipfsGateway, hash, resp) ==
    IF resp.err THEN Rejected(Err("Network", ipfsGateway))
    ELSE IF ~Parseable(resp.text) THEN Rejected(Err("Parse", ipfsGateway))
    ELSE Fulfilled(Doc(JSONparse(resp.text), resp.text))
\* helpers.ts:305-328, given the response to its GET
fetchPortraitFromIPFSGateway(ipfsGateway, hash, resp) ==
    IF resp.err THEN Rejected(Err("Network", ipfsGateway))
    ELSE IF ~resp.ok THEN Rejected(Err("HttpStatus", ipfsGateway))
    ELSE IF ~Parseable(resp.text) THEN Rejected(Err("Parse", ipfsGateway))
    ELSE LET parsed == JSONparse(resp.text) IN
         IF Truthy(ipfsHashCollision(hash, VerifiedText(parsed, resp.text)))
         THEN Fulfilled(Doc(parsed, resp.text))
         ELSE Rejected(Err("HashMismatch", ipfsGateway))

\* helpers.ts:277-287: the two nested Promise.any of fetchPortraitFromIPFS
\* variant: a race that waits until every gateway has settled
IpfsInner_WaitAll(gw, prev) ==
    IF \E i \in DOMAIN gw : ~Settled(gw[i]) THEN Pending ELSE PromiseAny(gw, prev)
IpfsInner(gw, prev) == PromiseAny(gw, prev)
\* variant: fetchPortraitFromIPFS returning the inner race itself
IpfsOuter_Direct(inner, prev) == inner
IpfsOuter(inner, prev) == PromiseAny(<<inner>>, prev)
\* variant: Promise.race, which settles as its first settled input does
TopRace_AsPromiseRace(race, ar, prev) ==
    IF Settled(prev) THEN prev
    ELSE IF Settled(race) THEN race
    ELSE IF Settled(ar) THEN ar
    ELSE Pending
\* helpers.ts:250-258: Promise.any of the two branches
TopRace(race, ar, prev) == PromiseAny(<<race, ar>>, prev)

\* the promise reactions that follow a callback which left the gateway
\* promises as gw and the archive promise as ar
Propagate(gw, ar) ==
    /\ ipfs' = IpfsInner(gw, ipfs)
    /\ ipfsRace' = IpfsOuter(ipfs', ipfsRace)
    /\ portrait' = TopRace(ipfsRace', ar, portrait)
    /\ firstBranch' =
         IF firstBranch # "none" THEN firstBranch
         ELSE IF ipfsRace'.st = "fulfilled" THEN "ipfs"
         ELSE IF ar.st = "fulfilled" THEN "arweave"
         ELSE "none"

\* helpers.ts:243-259 and the synchronous part of both branches: one GET per
\* gateway (282-283, 309) and the first index query (357)
FetchPortrait ==
    /\ portrait.st = "none"
    /\ gateway' = [i \in DOMAIN ipfsGateways |-> Pending]
    /\ mirrorGets' = Len(ipfsGateways)
    /\ arweave' = Pending
    /\ queries' = <<Query(ipfsHash, author, NoCursor)>>
    /\ arPc' = "index"
    /\ Propagate(gateway', arweave')
    /\ UNCHANGED <<inputs, edges, idx, objectGets, page, payloads, lastMatch,
                   matchBefore>>

\* the response to the GET of gateway i arrives (helpers.ts:310-327)
MirrorRespond(i, resp) ==
    /\ gateway[i].st = "pending"
    /\ gateway' = [gateway EXCEPT ![i] =
                      fetchPortraitFromIPFSGateway(ipfsGateways[i], ipfsHash, resp)]
    /\ Propagate(gateway', arweave)
    /\ UNCHANGED <<inputs, arweave, arPc, edges, idx, mirrorGets, queries,
                   objectGets, page, payloads, lastMatch, matchBefore>>

\* ------------------------------------------------------------ the archive
\* helpers.ts:419-429, reached when no candidate of the page was returned:
\* continue with the cursor of the 10th edge, or fail
\* variant: the comparison written as <= 10
PageFull_AtMost(es) == Len(es) <= PageSize
PageFull(es) == Len(es) = PageSize
\* variant: continuing from the cursor of the first edge of the page
NextCursor_First(es) == es[1].cursor
NextCursor(es) == es[PageSize].cursor
\* variant: a continuation that drops the author
NextAuthor_Dropped(auth) == ""
\* helpers.ts:424: author ? author : null
NextAuthor(auth) == auth
NotFound == Err("NotFound", 0)
AfterLoop(es) ==
    IF PageFull(es) /\ PageSize \in DOMAIN es
    THEN /\ queries' = Append(queries, Query(ipfsHash, NextAuthor(author), NextCursor(es)))
         /\ arPc' = "index"
         /\ arweave' = arweave
    ELSE /\ arweave' = Rejected(IF PageFull(es) THEN Err("TypeError", 0) ELSE NotFound)
         /\ arPc' = "done"
         /\ queries' = queries

\* the response to the index query arrives (helpers.ts:404-408, and 419-429
\* when the page is empty)
IndexRespond(resp) ==
    /\ arPc = "index"
    /\ resp.kind = "page" /\ resp.n = PageSize => Len(queries) < MaxPages
    /\ IF resp.kind # "page"
       THEN /\ arweave' = Rejected(Err(IF resp.kind = "network" THEN "Network"
                                       ELSE IF resp.kind = "notjson" THEN "Parse"
                                       ELSE "TypeError", 0))
            /\ arPc' = "done"
            /\ UNCHANGED <<edges, idx, queries, objectGets, page>>
       ELSE /\ edges' = Edges(Len(queries), resp.n)
            /\ page' = page + 1
            /\ IF resp.n > 0
               THEN /\ idx' = 1
                    /\ objectGets' = objectGets + 1
                    /\ arPc' = "object"
                    /\ UNCHANGED <<arweave, queries>>
               ELSE /\ idx' = 0
                    /\ AfterLoop(edges')
                    /\ UNCHANGED objectGets
    /\ Propagate(gateway, arweave')
    /\ UNCHANGED <<inputs, gateway, mirrorGets, payloads, lastMatch, matchBefore>>

\* variant: a loop that leaves the page after its first candidate
MoreCandidates_FirstOnly(i, es) == FALSE
\* helpers.ts:406: the for loop has a candidate after the i-th
MoreCandidates(i, es) == i < Len(es)

\* the response to the GET of candidate idx arrives (helpers.ts:410-417, and
\* 419-429 after the last candidate of the page)
ObjectRespond(resp) ==
    /\ arPc = "object"
    /\ IF resp.err
       THEN /\ arweave' = Rejected(Err("Network", 0))
            /\ arPc' = "done"
            /\ UNCHANGED <<idx, queries, objectGets, payloads, lastMatch, matchBefore>>
       ELSE LET arweaveResponse == resp.text
                isCorrectFile == Await(ipfsHashCollision(ipfsHash, arweaveResponse))
            IN  /\ payloads' = payloads + 1
                /\ lastMatch' = HashesTo(arweaveResponse, ipfsHash)
                /\ matchBefore' = (matchBefore \/ lastMatch)
                /\ IF Truthy(isCorrectFile)
                   THEN /\ arweave' = IF Parseable(arweaveResponse)
                                      THEN Fulfilled(Doc(JSONparse(arweaveResponse),
                                                         arweaveResponse))
                                      ELSE Rejected(Err("Parse", 0))
                        /\ arPc' = "done"
                        /\ UNCHANGED <<idx, queries, objectGets>>
                   ELSE IF MoreCandidates(idx, edges)
                   THEN /\ idx' = idx + 1
                        /\ objectGets' = objectGets + 1
                        /\ UNCHANGED <<arweave, arPc, queries>>
                   ELSE /\ AfterLoop(edges)
                        /\ UNCHANGED <<idx, objectGets>>
    /\ Propagate(gateway, arweave')
    /\ UNCHANGED <<inputs, gateway, mirrorGets, edges, page>>

Next ==
    \/ FetchPortrait
    \/ \E i \in DOMAIN ipfsGateways : \E resp \in Responses : MirrorRespond(i, resp)
    \/ \E resp \in IndexResponses : IndexRespond(resp)
    \/ \E resp \in Responses : ObjectRespond(resp)

Spec == Init /\ [][Next]_vars

\* ---- the archive search on its own: a call without gateways, for the
\* identifier of a JSON text or of bytes that are not JSON
ArchiveRequested == {T1w, THtml}
InitArchive ==
    /\ ipfsHash \in {CIDString("base32", CIDcreateV1(RawCodec, Sha256(t))) : t \in ArchiveRequested}
    /\ author \in {"", "0xA"}
    /\ ipfsGateways = << >>
    /\ gateway = << >>
    /\ ipfs = NotCreated
    /\ ipfsRace = NotCreated
    /\ arweave = NotCreated
    /\ portrait = NotCreated
    /\ arPc = "idle"
    /\ edges = << >>
    /\ idx = 0
    /\ mirrorGets = 0
    /\ queries = << >>
    /\ objectGets = 0
    /\ page = 0
    /\ payloads = 0
    /\ lastMatch = FALSE
    /\ matchBefore = FALSE
    /\ firstBranch = "none"
    /\ call = NoCall
ArchiveNext ==
    \/ FetchPortrait
    \/ \E resp \in IndexResponses : IndexRespond(resp)
    \/ \E resp \in Responses : ObjectRespond(resp)
SpecArchive == InitArchive /\ [][ArchiveNext]_vars

\* ------------------------------------------------- helpers and SDK methods
\* Each action below is one call of a helper or of a method of the SDK, with
\* arguments and answers of the outside world drawn from small sets; call
\* records the arguments and the outcome.

\* the multibases a CID string can be written in
Bases == {"base32", "base58btc"}
\* the identifier strings the registry can deliver
HashStrings ==
    {CIDString(b, CIDcreateV1(RawCodec, Sha256(t))) : b \in Bases, t \in Texts}

\* helpers.ts:412: ipfsHashCollision as fetchPortraitFromArweave calls it
CallIpfsHashCollision(hash, json) ==
    /\ call' = [fn |-> "ipfsHashCollision",
                args |-> [ipfsHash |-> hash, json |-> json],
                out |-> Await(ipfsHashCollision(hash, json))]
    /\ UNCHANGED fetchVars

\* helpers.ts:305-328: fetchPortraitFromIPFSGateway for one response;
\* verified is the text it hands to ipfsHashCollision ("" when it does not
\* get that far)
CallGateway(hash, resp) ==
    /\ call' = [fn |-> "fetchPortraitFromIPFSGateway",
                args |-> [ipfsHash |-> hash, resp |-> resp],
                verified |-> IF ~resp.err /\ resp.ok /\ Parseable(resp.text)
                             THEN VerifiedText(JSONparse(resp.text), resp.text)
                             ELSE "",
                out |-> fetchPortraitFromIPFSGateway(1, hash, resp)]
    /\ UNCHANGED fetchVars

\* ---- identities (helpers.ts:41-48, 95-97, 163-175)
\* A string is modelled by its length and its lexical form:
\*   "alnum"       lowercase letters and digits only, e.g. testdao
\*   "upper"       letters and digits, some uppercase, e.g. testDAO
\*   "dash"        lowercase labels with a dash, e.g. test-dao
\*   "dotted"      lowercase labels separated by dots, e.g. vitalik.eth
\*   "emptylabel"  dots with an empty label between them, e.g. abc..eth
\*   "address"     0x and 40 lowercase hexadecimal digits
\*   "checksum"    0x and 40 hexadecimal digits in the mixed case of EIP-55
Str(form, len) == [t |-> "string", form |-> form, len |-> len]
JSNum(n) == [t |-> "number", v |-> n]
NameLens == {2, 3, 7, 64, 65}
AddressLen == 42
Identities ==
    {Str(f, n) : f \in {"alnum", "upper", "dash", "dotted", "emptylabel"}, n \in NameLens}
    \cup {Str("address", AddressLen), Str("alnum", AddressLen), JSNum(7)}

\* /^[a-z0-9]+$/.test(value)
LowerAlnum(value) == value.form \in {"alnum", "address"}
\* helpers.ts:41-48
isAddress(value) ==
    value.t = "string" /\ value.form \in {"address", "checksum"} /\ value.len = AddressLen
\* ethers.utils.isValidName: every label of the name is non-empty once
\* normalised; a name needs no dot
isValidName(value) == value.form # "emptylabel"
\* helpers.ts:95-97
isValidENSName(value) == value.t = "string" /\ isValidName(value)

\* the global `length` the bare identifier of helpers.ts:169-170 reads: not
\* defined outside a browser, the number of frames of the window inside one
GlobalLengths ==
    {[defined |-> FALSE, v |-> 0]} \cup {[defined |-> TRUE, v |-> n] : n \in {0, 3}}

\* the outcome of a synchronous call: a value, or an exception
Returned(v) == [threw |-> FALSE, v |-> v, error |-> ""]
Threw(e) == [threw |-> TRUE, v |-> Undefined, error |-> e]

\* helpers.ts:163-175; length is the global, not value.length
MinNameLen == 3
MaxNameLen == 64
isCollectivePortraitName(value, length) ==
    IF value.t # "string" THEN Returned(JSBool(FALSE))
    ELSE IF ~LowerAlnum(value) THEN Returned(JSBool(FALSE))
    ELSE IF ~length.defined THEN Threw("ReferenceError")
    ELSE Returned(JSBool(/\ length.v >= MinNameLen
                         /\ length.v <= MaxNameLen
                         /\ ~isAddress(value)
                         /\ ~isValidENSName(value)))

CallIsCollectivePortraitName(value, length) ==
    /\ call' = [fn |-> "isCollectivePortraitName",
                args |-> [value |-> value, length |-> length],
                out |-> isCollectivePortraitName(value, length)]
    /\ UNCHANGED fetchVars

\* ---- JS operators on the values the contract methods hand back
NaN == [t |-> "nan", v |-> 0]
\* a + b: numbers add; an object or a string operand makes it a concatenation,
\* whose text ("[object Promise]...") is no numeral; undefined gives NaN
JSPlus(a, b) ==
    IF a.t = "number" /\ b.t = "number" THEN JSNum(a.v + b.v)
    ELSE IF a.t \in {"object", "string"} \/ b.t \in {"object", "string"}
    THEN [t |-> "string", v |-> "[object Promise]"]
    ELSE NaN
\* a * b: an operand that is not a number converts to NaN
JSTimes(a, b) == IF a.t = "number" /\ b.t = "number" THEN JSNum(a.v * b.v) ELSE NaN
\* a > b: false as soon as an operand converts to NaN
JSGt(a, b) == a.t = "number" /\ b.t = "number" /\ a.v > b.v
\* a === b on primitives; an object is equal to itself only
JSStrictEq(a, b) == a.t = b.t /\ a.t \in {"number", "boolean", "undefined"} /\ a.v = b.v
\* a ?? b
Nullish(a, b) == IF a.t = "undefined" THEN b ELSE a
Obj(id) == [t |-> "object", id |-> id]
JSStr(x) == [t |-> "string", v |-> x]

\* ---- contract reads (part_000:343-345, 374-385, 409-413, 495-499)
\* The registry object answers a read either with a promise of the value (an
\* ethers.Contract, the default of part_000:107-112) or with the value itself
\* (options.portraitCollectiveContract is typed any).
ContractKinds == {"ethers", "plain"}
Read(kind, n) == IF kind = "ethers" THEN PromiseOf(JSNum(n)) ELSE JSNum(n)
\* parameters[2] of part_000:381: a promise has no element 2
getAuctionParameters(kind, epoch) ==
    [auctionEpoch |-> IF kind = "ethers" THEN Undefined ELSE JSNum(epoch)]

\* the chain state an auction question is asked about
EpochBlocks == 1375
Chains ==
    [kind : ContractKinds, validUntil : {100, 2000}, gracePeriod : {0, 10},
     auctionEpoch : {0, 1}, offset : {-1, 0, 1}, at : {"validUntil", "start", "end"}]
AuctionStart(c) == c.validUntil + c.gracePeriod
AuctionEnd(c) == c.validUntil + c.gracePeriod + EpochBlocks * c.auctionEpoch
\* block.timestamp of the current block
Timestamp(c) ==
    c.offset + (CASE c.at = "validUntil" -> c.validUntil
                  [] c.at = "start" -> AuctionStart(c)
                  [] c.at = "end" -> AuctionEnd(c))

getValidUntil(c) == Read(c.kind, c.validUntil)
getGracePeriod(c) == Read(c.kind, c.gracePeriod)
\* part_000:455-458
getAuctionStartTime(c) == JSPlus(getValidUntil(c), getGracePeriod(c))
\* part_000:472-479
getAuctionEndTime(c) ==
    JSPlus(JSPlus(getValidUntil(c), getGracePeriod(c)),
           JSTimes(JSNum(EpochBlocks), getAuctionParameters(c.kind, c.auctionEpoch).auctionEpoch))
\* part_000:427-440 (async: the result is a promise)
isAuction(c) ==
    LET ts == JSNum(Timestamp(c))
    IN  PromiseOf(JSBool(
            IF JSGt(getValidUntil(c), ts) THEN FALSE
            ELSE IF JSGt(getAuctionStartTime(c), ts) THEN FALSE
            ELSE IF JSGt(getAuctionEndTime(c), ts) THEN FALSE
            ELSE TRUE))
Prices == {5}
getPrice(c, price) == Read(c.kind, price)
\* part_000:515-524
getAuctionPrice(c, price) ==
    IF ~Truthy(isAuction(c)) THEN Threw("Auction is not active")
    ELSE Returned(getPrice(c, price))

CallIsAuction(c) ==
    /\ call' = [fn |-> "isAuction", args |-> c, out |-> isAuction(c)]
    /\ UNCHANGED fetchVars
CallGetAuctionPrice(c, price) ==
    /\ call' = [fn |-> "getAuctionPrice", args |-> c, price |-> price,
                out |-> getAuctionPrice(c, price)]
    /\ UNCHANGED fetchVars

\* ---- new Portrait(options) (part_000:70-100)
Options ==
    [ethereumPrivateKey : {Undefined, Obj("SigningKey")},
     alchemyApiKey : {Undefined, JSStr(""), JSStr("key")},
     portraitWallet : {Undefined, Obj("options.portraitWallet")},
     portraitProvider : {Undefined, Obj("options.portraitProvider")}]
Portrait(options) ==
    LET ethereumPrivateKey == options.ethereumPrivateKey
        alchemyApiKey == options.alchemyApiKey
        \* a ?? b ? c : d is (a ?? b) ? c : d
        makeWallet == Truthy(Nullish(options.portraitWallet, ethereumPrivateKey))
        makeAlchemy == Truthy(Nullish(options.portraitProvider, alchemyApiKey))
    IN  IF makeWallet /\ ethereumPrivateKey.t = "undefined"
        THEN Threw("invalid private key")   \* new ethers.Wallet(undefined, ...)
        ELSE Returned([t |-> "object",
                       portraitWallet |-> IF makeWallet THEN Obj("ethers.Wallet") ELSE Undefined,
                       portraitProvider |-> IF makeAlchemy THEN Obj("AlchemyProvider")
                                            ELSE Obj("getDefaultProvider")])
CallPortrait(options) ==
    /\ call' = [fn |-> "Portrait", args |-> options, out |-> Portrait(options)]
    /\ UNCHANGED fetchVars

\* ---- hasBetaPass (part_000:208-216)
Balances == {0, 1, 2}
BetaPass == 1
\* portraitBetaNFTContract is an ethers.Contract: balanceOf answers a promise
hasBetaPass(identity, balance) ==
    PromiseOf(JSBool(IF JSStrictEq(Read("ethers", balance), JSNum(BetaPass)) THEN TRUE ELSE FALSE))
CallHasBetaPass(identity, balance) ==
    /\ call' = [fn |-> "hasBetaPass", args |-> [identity |-> identity, balance |-> balance],
                out |-> hasBetaPass(identity, balance)]
    /\ UNCHANGED fetchVars

\* ---- identities and the registries (part_000:158-193, 244-263, 869-895)
Null == [t |-> "null", v |-> 0]
Accounts == {"A", "B"}
\* the text of the address of an account, in one of the two cases, and an
\* ENS name; owner is the account the name resolves to, "" when it has none
AddrStr(form, account) ==
    [t |-> "string", form |-> form, len |-> AddressLen, account |-> account]
NameStr(form, owner) == [t |-> "string", form |-> form, len |-> 7, owner |-> owner]
Owners == Accounts \cup {""}
\* the identities a caller hands to the SDK: an address, a dotted ENS name,
\* a Collective Portrait name such as testdao, a string with an empty label
CallerIdentities ==
    {AddrStr(f, a) : f \in {"address", "checksum"}, a \in Accounts}
    \cup {NameStr("dotted", o) : o \in Owners}
    \cup {NameStr("alnum", ""), NameStr("emptylabel", "")}

\* provider.resolveName(name), awaited: an address is handed back in
\* checksum case, a name with a resolver gives its address, another name null
resolveName(name) ==
    IF name = Null THEN Threw("invalid ENS name")
    ELSE IF isAddress(name) THEN Returned(AddrStr("checksum", name.account))
    ELSE IF name.form = "emptylabel" THEN Threw("invalid ENS name")
    ELSE IF name.owner # "" THEN Returned(AddrStr("checksum", name.owner))
    ELSE Returned(Null)

\* the outcome of a hash lookup: the registry asked and the key it was
\* asked for, or no registry and the error ("" when the outcome is null)
Lookup(registry, key) == [registry |-> registry, key |-> key, error |-> ""]
NoLookup(error) == [registry |-> "none", key |-> Null, error |-> error]

\* part_000:889-895, called with a string or with the promise of
\* resolveName (awaited inside resolveName)
UserGetPortraitHash(identity) ==
    LET resolved == IF identity.t = "object" THEN resolveName(Await(identity))
                    ELSE resolveName(identity)
        address == IF isAddress(identity) THEN Returned(identity) ELSE resolved
    IN  IF address.threw THEN NoLookup(address.error)
        ELSE IF address.v = Null THEN NoLookup("invalid address or ENS name")
        ELSE Lookup("user", address.v)
\* part_000:261-263
CollectiveGetPortraitHash(name) == Lookup("collective", name)
\* part_000:185-193
getPortraitHash(identity, length) ==
    IF isAddress(identity) THEN UserGetPortraitHash(identity)
    ELSE IF isValidENSName(identity)
    THEN LET r == resolveName(identity)
         IN  UserGetPortraitHash(PromiseOf(IF r.threw THEN Null ELSE r.v))
    ELSE LET isName == isCollectivePortraitName(identity, length)
         IN  IF isName.threw THEN NoLookup(isName.error)
             ELSE IF isName.v.v THEN CollectiveGetPortraitHash(identity)
             ELSE NoLookup("")
CallGetPortraitHash(identity, length) ==
    /\ call' = [fn |-> "getPortraitHash", args |-> [identity |-> identity, length |-> length],
                out |-> getPortraitHash(identity, length)]
    /\ UNCHANGED fetchVars

\* helpers.ts:256: ethereumAddress ? ethereumAddress : null
FetchAuthor(ethereumAddress) ==
    IF ethereumAddress \in {Null, Undefined} THEN Null ELSE ethereumAddress
\* the call of fetchPortrait a getPortrait makes: none when the hash lookup
\* rejected, else the author argument
NoFetch == [fetch |-> FALSE, author |-> Null]
Fetch(ethereumAddress) == [fetch |-> TRUE, author |-> FetchAuthor(ethereumAddress)]
\* part_000:158-172
PortraitGetPortrait(identity, length) ==
    LET hash == getPortraitHash(identity, length)
        resolved == resolveName(identity)
    IN  IF hash.error # "" \/ resolved.threw THEN NoFetch
        ELSE IF resolved.v # Null THEN Fetch(resolved.v)
        ELSE IF isAddress(identity) THEN Fetch(identity)
        ELSE Fetch(Null)
\* part_000:869-880
UserGetPortrait(userAddress) ==
    IF UserGetPortraitHash(userAddress).error # "" THEN NoFetch ELSE Fetch(userAddress)
\* part_000:244-252
CollectiveGetPortrait(name) == Fetch(Undefined)
getPortrait(class, identity, length) ==
    CASE class = "Portrait" -> PortraitGetPortrait(identity, length)
      [] class = "User" -> UserGetPortrait(identity)
      [] class = "Collective" -> CollectiveGetPortrait(identity)
CallGetPortrait(class, identity, length) ==
    /\ call' = [fn |-> "getPortrait",
                args |-> [class |-> class, identity |-> identity, length |-> length],
                out |-> getPortrait(class, identity, length)]
    /\ UNCHANGED fetchVars

\* ---- setPortraitHashAsDelegate (part_000:925-958)
\* signer is the account the signature over the packed (address,
\* blockNumber, hash) was made by
setPortraitHashAsDelegate(identity, signer) ==
    LET address == IF isAddress(identity) THEN identity
                   ELSE PromiseOf(resolveName(identity).v)
        \* verifyMessage hands back the address in checksum case
        recoveredAddress == AddrStr("checksum", signer)
    IN  \* solidityKeccak256 takes a hexadecimal string for an address
        IF address.t # "string" THEN Threw("invalid arrayify value")
        ELSE IF recoveredAddress # address THEN Threw("Invalid signature")
        ELSE Returned([t |-> "object", id |-> "setPersonalIpfsCIDByDelegate",
                       address |-> address])
CallSetPortraitHashAsDelegate(identity, signer) ==
    /\ call' = [fn |-> "setPortraitHashAsDelegate",
                args |-> [identity |-> identity, signer |-> signer],
                out |-> setPortraitHashAsDelegate(identity, signer)]
    /\ UNCHANGED fetchVars

CallsNext ==
    \/ \E identity \in CallerIdentities, length \in GlobalLengths :
            CallGetPortraitHash(identity, length)
    \/ \E class \in {"Portrait", "User", "Collective"}, identity \in CallerIdentities,
          length \in GlobalLengths :
            CallGetPortrait(class, identity, length)
    \/ \E identity \in {i \in CallerIdentities : i.form \in {"address", "checksum", "dotted"}},
          signer \in Accounts :
            CallSetPortraitHashAsDelegate(identity, signer)
    \/ \E c \in Chains : CallIsAuction(c)
    \/ \E c \in Chains, price \in Prices : CallGetAuctionPrice(c, price)
    \/ \E options \in Options : CallPortrait(options)
    \/ \E identity \in {Str("address", AddressLen), Str("dotted", 7)}, balance \in Balances :
            CallHasBetaPass(identity, balance)
    \/ \E value \in Identities, length \in GlobalLengths :
            CallIsCollectivePortraitName(value, length)
    \/ \E hash \in HashStrings, json \in Texts : CallIpfsHashCollision(hash, json)
    \/ \E hash \in HashStrings, resp \in Responses : CallGateway(hash, resp)

SpecCalls == Init /\ [][CallsNext]_vars

\* ------------------------------------------------------------------ claims
Range(f) == {f[i] : i \in DOMAIN f}
\* the gateways whose GET was answered by a 2xx body that hashes to ipfsHash
MatchingMirrors ==
    {i \in DOMAIN gateway : gateway[i].st = "fulfilled"
                            /\ HashesTo(gateway[i].value.bytes, ipfsHash)}

\* C1: a Document fetchPortrait resolves with was obtained from bytes that
\* hash to the requested ContentHash.
C1_OnlyVerifiedReturned ==
    portrait.st = "fulfilled" => HashesTo(portrait.value.bytes, ipfsHash)

\* C2: a gateway answering 2xx with a body that does not hash to the requested
\* ContentHash makes fetchPortraitFromIPFSGateway fail; the body is never its
\* result.
C2_MismatchRejected ==
    \A i \in DOMAIN gateway :
        gateway[i].st = "fulfilled" => HashesTo(gateway[i].value.bytes, ipfsHash)

\* C3: when every gateway has answered, exactly one of them with a document
\* matching the hash, fetchPortraitFromIPFS returns that document, whatever
\* the order of completion.
C3_RaceReturnsMatching ==
    (/\ \A i \in DOMAIN gateway : Settled(gateway[i])
     /\ Cardinality(MatchingMirrors) = 1)
    => \E i \in MatchingMirrors : ipfsRace = Fulfilled(gateway[i].value)

\* C4: once fetchPortrait has selected its winner, no further outbound
\* request is issued: no index query, no object GET, no gateway GET.
C4_NoRequestAfterWinner ==
    [][portrait.st = "fulfilled"
        => <<mirrorGets, queries, objectGets>>' = <<mirrorGets, queries, objectGets>>]_vars

\* C5: fetchPortrait is fulfilled exactly when a branch has produced a
\* Document, with the Document of the branch that did so first; it is
\* rejected exactly when both branches have failed, so never while a branch
\* is pending or has succeeded.
C5_FirstSuccessWins ==
    /\ portrait.st = "fulfilled" <=> (ipfsRace.st = "fulfilled" \/ arweave.st = "fulfilled")
    /\ firstBranch = "ipfs" => portrait = Fulfilled(ipfsRace.value)
    /\ firstBranch = "arweave" => portrait = Fulfilled(arweave.value)
    /\ portrait.st = "rejected" <=> (ipfsRace.st = "rejected" /\ arweave.st = "rejected")

\* C5 witness: the archive search failed first, the call stayed pending and
\* was then fulfilled by the mirror race.
C5_Witness ==
    /\ arweave.st = "rejected"
    /\ firstBranch = "ipfs"
    /\ portrait.st = "fulfilled"
    /\ \E i \in DOMAIN gateway : gateway[i].st = "rejected"

\* C6 as claimed: when every mirror and the archive search failed, the error
\* list of fetchPortrait's failure has the N mirror errors and the archive
\* error as its N+1 members, and the failure of the mirror race has the
\* mirror errors as its members.
C6_FlatAggregate ==
    (portrait.st = "rejected" /\ Len(ipfsGateways) >= 1)
    => /\ Len(portrait.reason.errors) = Len(ipfsGateways) + 1
       /\ \A i \in DOMAIN gateway : gateway[i].reason \in Range(portrait.reason.errors)
       /\ arweave.reason \in Range(portrait.reason.errors)
       /\ ipfsRace.reason.errors = [i \in DOMAIN gateway |-> gateway[i].reason]

\* C6 as amended: the failure of fetchPortrait is an aggregate of exactly two
\* members, the failure of the mirror race and the archive error; the failure
\* of the mirror race is an aggregate with one member, the aggregate that
\* carries each mirror's error in gateway order.
C6_NestedAggregate ==
    /\ ipfsRace.st = "rejected"
       => /\ \A i \in DOMAIN gateway : gateway[i].st = "rejected"
          /\ ipfsRace.reason =
               AggregateError(<<AggregateError([i \in DOMAIN gateway |-> gateway[i].reason])>>)
    /\ portrait.st = "rejected"
       => /\ ipfsRace.st = "rejected" /\ arweave.st = "rejected"
          /\ portrait.reason = AggregateError(<<ipfsRace.reason, arweave.reason>>)

\* C6 witness: all NumMirrors mirrors answered with a non-2xx status, the
\* archive search found nothing, and the call failed.
C6_Witness ==
    /\ Len(ipfsGateways) = NumMirrors
    /\ \A i \in DOMAIN gateway : gateway[i] = Rejected(Err("HttpStatus", ipfsGateways[i]))
    /\ arweave = Rejected(NotFound)
    /\ portrait.st = "rejected"

\* the payload received last is the first one that hashes to ipfsHash
FirstMatchReceived == lastMatch /\ ~matchBefore
\* the archive search returned the document of the requested bytes
ArchiveReturnedMatch ==
    arweave.st = "fulfilled" /\ HashesTo(arweave.value.bytes, ipfsHash)
\* every continuation query carries the cursor of the 10th edge of the page
\* before it
CursorsChained ==
    \A q \in 2..Len(queries) : queries[q].paging = [first |-> PageSize,
                                                    after |-> [page |-> q - 1, pos |-> PageSize]]

\* C7: after k-1 >= 1 full pages of candidates that do not verify, a
\* verifying candidate on page k (the first matching payload, received after
\* the 10 payloads of each page before) is returned, after exactly k index
\* queries, each continuation using the cursor of the last candidate of the
\* page before.
C7_PaginationReturnsMatch ==
    (FirstMatchReceived /\ page >= 2 /\ payloads > PageSize * (page - 1))
    => /\ ArchiveReturnedMatch
       /\ Len(queries) = page
       /\ CursorsChained

\* the candidates of the page received last were all fetched, and no payload
\* received so far hashes to ipfsHash
PageExhausted ==
    /\ page >= 1
    /\ idx = Len(edges)
    /\ payloads = objectGets
    /\ ~lastMatch /\ ~matchBefore

\* C8: a page of fewer than 10 candidates none of which verifies ends the
\* search with the not-found error and without a further index query; on the
\* first page, after exactly one query.
C8_ShortPageNotFound ==
    (PageExhausted /\ Len(edges) < PageSize)
    => /\ arweave = Rejected(NotFound)
       /\ arPc = "done"
       /\ Len(queries) = page

\* C8 witness: the first page held 9 candidates, all fetched, none matching.
C8_Witness ==
    /\ PageExhausted
    /\ page = 1
    /\ Len(edges) = PageSize - 1
    /\ Len(queries) = 1
    /\ arweave = Rejected(NotFound)

\* C9: the first candidate of a page whose payload verifies is returned, and
\* no candidate after it is fetched.
C9_FirstVerifyingReturned ==
    FirstMatchReceived => (ArchiveReturnedMatch /\ objectGets = payloads)

\* C10: the search does not fail because the request for one candidate's
\* payload failed: it is never rejected while the object GET issued last is
\* the one that went unanswered.
C10_CandidateFailureIsLocal ==
    arweave.st = "rejected" => payloads = objectGets

\* C11: called with the string form of an identifier, ipfsHashCollision
\* answers true for the bytes the identifier was computed from and false for
\* any other bytes (a single-byte mutation among them).
C11_RoundTrip ==
    call.fn = "ipfsHashCollision"
    => call.out = JSBool(HashesTo(call.args.json, call.args.ipfsHash))

\* C12: the text fetchPortraitFromIPFSGateway hands to the verifier is the
\* body it received, byte for byte.
C12_ExactBytesVerified ==
    (call.fn = "fetchPortraitFromIPFSGateway" /\ call.verified # "")
    => call.verified = call.args.resp.text

\* C13: the answer of ipfsHashCollision is the same for every textual
\* encoding of the identifier, and is true when the bytes hash to it.
C13_CanonicalEquality ==
    call.fn = "ipfsHashCollision"
    => /\ \A b \in Bases :
            Await(ipfsHashCollision(CIDString(b, call.args.ipfsHash.cid), call.args.json))
            = call.out
       /\ HashesTo(call.args.json, call.args.ipfsHash) => call.out = JSBool(TRUE)

\* C14: as soon as one gateway has completed successfully the mirror race is
\* resolved, whatever the other gateways do.
C14_FirstSuccessResolvesRace ==
    (\E i \in DOMAIN gateway : gateway[i].st = "fulfilled") => ipfsRace.st = "fulfilled"

\* C14 witness: the race is resolved while a gateway has not answered.
C14_Witness ==
    /\ ipfsRace.st = "fulfilled"
    /\ \E i \in DOMAIN gateway : gateway[i].st = "pending"

\* C15: isCollectivePortraitName(v) is true exactly when v is a string of
\* lowercase letters and digits, 3 to 64 characters long, that is neither an
\* address nor a dotted ENS name; so it is true for 'testdao'.
C15_CollectiveNameShape ==
    call.fn = "isCollectivePortraitName"
    => call.out = Returned(JSBool(/\ call.args.value.t = "string"
                                  /\ call.args.value.form = "alnum"
                                  /\ call.args.value.len >= MinNameLen
                                  /\ call.args.value.len <= MaxNameLen))

\* the window the registry puts a name up for auction in
InAuctionWindow(c) == Timestamp(c) > AuctionStart(c) /\ Timestamp(c) < AuctionEnd(c)

\* C16: isAuction resolves true exactly when the block timestamp is strictly
\* after validUntil + gracePeriod and strictly before the end of the auction.
C16_AuctionWindow ==
    call.fn = "isAuction" => Await(call.out) = JSBool(InAuctionWindow(call.args))

\* C17: getAuctionPrice throws 'Auction is not active' when the name is not
\* up for auction, and hands back a price only when isAuction holds.
C17_PriceOnlyInAuction ==
    call.fn = "getAuctionPrice"
    => /\ ~InAuctionWindow(call.args) => call.out = Threw("Auction is not active")
       /\ ~call.out.threw => Await(isAuction(call.args)) = JSBool(TRUE)

\* C18: after new Portrait(options) the provider is options.portraitProvider
\* when one was supplied and a default one only otherwise; likewise the wallet
\* is options.portraitWallet when one was supplied.
C18_SuppliedOptionsKept ==
    call.fn = "Portrait"
    => IF call.out.threw THEN FALSE
       ELSE /\ call.args.portraitProvider # Undefined
                => call.out.v.portraitProvider = call.args.portraitProvider
            /\ call.args.portraitProvider = Undefined
                => call.out.v.portraitProvider \in {Obj("AlchemyProvider"), Obj("getDefaultProvider")}
            /\ call.args.portraitWallet # Undefined
                => call.out.v.portraitWallet = call.args.portraitWallet

\* C19: hasBetaPass resolves true when the pass balance of the address is 1
\* and false when it is 0.
C19_BetaPassBalance ==
    (call.fn = "hasBetaPass" /\ call.args.balance \in {0, 1})
    => Await(call.out) = JSBool(call.args.balance = 1)

\* C20: every index query, the first one included, asks for at most 10 edges
\* sorted by ascending height, and carries an after argument exactly when it
\* continues from a cursor.
C20_EveryQueryCapped ==
    \A q \in 1..Len(queries) :
        LET paging == queries[q].paging
        IN  /\ "first" \in DOMAIN paging
            /\ paging.first <= PageSize
            /\ queries[q].sort = "HEIGHT_ASC"
            /\ ("after" \in DOMAIN paging) <=> (q > 1)

\* C21: every index query of one call carries the requested identifier in
\* its IPFS-Add tag and the caller's author; the Author tag is in the query
\* exactly when the caller supplied an author.
C21_StaticFilter ==
    \A q \in 1..Len(queries) :
        /\ queries[q].ipfsAdd = ipfsHash
        /\ queries[q].protocol = "Portrait"
        /\ author # "" => queries[q].authorTag = [name |-> "Author", value |-> author]
        /\ author = "" => "name" \notin DOMAIN queries[q].authorTag

\* C21 witness: a continuation query of a call with an author.
C21_Witness == Len(queries) >= 2 /\ author # ""

\* C22: the query for page k+1 carries the cursor of the last (10th)
\* candidate of page k, the first query carries none, and no cursor is
\* carried by two queries.
C22_CursorOfPreviousPage ==
    /\ \A q \in 1..Len(queries) :
          IF q = 1 THEN "after" \notin DOMAIN queries[q].paging
          ELSE /\ "after" \in DOMAIN queries[q].paging
               /\ queries[q].paging.after = Edges(q - 1, PageSize)[PageSize].cursor
    /\ \A q1, q2 \in 2..Len(queries) :
          queries[q1].paging.after = queries[q2].paging.after => q1 = q2

\* C22 witness: two continuations have been issued.
C22_Witness == Len(queries) >= 3

\* the rejections of the archive search that come from a request: a
\* transport failure, a body that is not JSON, a response without the
\* expected fields
RequestFailures == {"Network", "Parse", "TypeError"}

\* every page received so far was full, every candidate of them was fetched
\* and turned down, and no request failed
OnlyFullPagesSoFar ==
    /\ page >= 1
    /\ Len(edges) = PageSize
    /\ payloads = PageSize * page
    /\ arweave.st # "fulfilled"
    /\ arweave.reason.kind \notin RequestFailures

\* after any number of full pages the search is still running and has asked
\* for one more page
NoPageBudget ==
    OnlyFullPagesSoFar
    => arweave.st = "pending" /\ arPc = "index" /\ Len(queries) = page + 1

\* C23: the search has no page budget, and it ends only with
\* a candidate that was accepted, a failed request, or a page of fewer than
\* 10 candidates.
C23_EndsOnlyOnShortPage ==
    /\ NoPageBudget
    /\ Settled(arweave)
       => \/ arweave.st = "fulfilled"
          \/ arweave.reason.kind \in RequestFailures
          \/ arweave.reason = NotFound /\ Len(edges) < PageSize

\* C24: a gateway that answers with a status outside 2xx makes the fetch
\* from that gateway fail with the status error, whatever the body holds,
\* and the mirror race does not fail while another gateway is pending.
C24_NonOkFailsThatMirrorOnly ==
    [][\A i \in DOMAIN ipfsGateways : \A resp \in Responses :
          (MirrorRespond(i, resp) /\ ~resp.err /\ ~resp.ok)
          => /\ gateway'[i] = Rejected(Err("HttpStatus", ipfsGateways[i]))
             /\ (\E j \in DOMAIN ipfsGateways : gateway'[j].st = "pending")
                => ipfsRace'.st # "rejected"]_vars

\* C24 witness: one gateway failed on its status, another is pending and
\* the race is undecided.
C24_Witness ==
    /\ \E i \in DOMAIN gateway : gateway[i].reason.kind = "HttpStatus"
    /\ \E j \in DOMAIN gateway : gateway[j].st = "pending"
    /\ ipfsRace.st = "pending"

\* C25: on every path to fetchPortrait the author argument is absent or an
\* Ethereum address; an ENS name is never handed over unresolved.
C25_AuthorIsAddress ==
    (call.fn = "getPortrait" /\ call.out.fetch)
    => call.out.author = Null \/ isAddress(call.out.author)

\* the account an identity stands for: the one of the address, or the one
\* the ENS name resolves to
AccountOf(identity) == IF isAddress(identity) THEN identity.account ELSE identity.owner

\* C26: setPortraitHashAsDelegate submits setPersonalIpfsCIDByDelegate when
\* the signature recovers to the address of the identity, given as an
\* address or as an ENS name, and throws 'Invalid signature' without a
\* contract call otherwise.
C26_DelegateSignature ==
    call.fn = "setPortraitHashAsDelegate"
    => IF call.args.signer = AccountOf(call.args.identity)
       THEN ~call.out.threw
       ELSE call.out = Threw("Invalid signature")

\* C27: getPortraitHash asks the user registry for an address, the user
\* registry for the address an ENS name resolves to, the collective
\* registry for a Collective Portrait name such as testdao, and no registry
\* for a string that is none of these.
C27_DispatchOnIdentity ==
    call.fn = "getPortraitHash"
    => LET identity == call.args.identity
       IN  CASE isAddress(identity) -> call.out = Lookup("user", identity)
             [] identity.form = "dotted" /\ identity.owner # ""
                  -> call.out = Lookup("user", AddrStr("checksum", identity.owner))
             [] identity.form = "alnum" -> call.out = Lookup("collective", identity)
             [] identity.form = "emptylabel" -> call.out = NoLookup("")
             [] OTHER -> TRUE

\* C28: the archive search has at most one request in flight; the payload
\* of a candidate is asked for only when the payloads of all candidates
\* before it were received and turned down; the query for page k+1 is
\* issued only when all 10 payloads of each of the k pages before were
\* received and turned down.
C28_StrictlySequential ==
    /\ Len(queries) + objectGets - page - payloads <= 1
    /\ objectGets <= payloads + 1
    /\ arPc = "object"
       => /\ arweave.st = "pending"
          /\ objectGets = PageSize * (page - 1) + idx
          /\ payloads = objectGets - 1
    /\ (arPc = "index" /\ Len(queries) >= 2)
       => /\ arweave.st = "pending"
          /\ page = Len(queries) - 1
          /\ objectGets = PageSize * page
          /\ payloads = objectGets

\* C28 witness: a later candidate of a later page is being fetched.
C28_Witness == arPc = "object" /\ page >= 2 /\ idx >= 2

\* C29: with an empty gateway list no gateway request is made, the mirror
\* race has failed as soon as the call is made, and the call ends as the
\* archive search ends: with its document, or with an aggregate failure that
\* carries the failure of the empty race and the archive error.
C29_EmptyMirrorList ==
    (Len(ipfsGateways) = 0 /\ portrait.st # "none")
    => /\ mirrorGets = 0
       /\ ipfsRace = Rejected(AggregateError(<<AggregateError(<< >>)>>))
       /\ portrait.st = arweave.st
       /\ arweave.st = "fulfilled" => portrait.value = arweave.value
       /\ arweave.st = "rejected"
          => portrait.reason = AggregateError(<<ipfsRace.reason, arweave.reason>>)

\* C29 witness: a call without gateways that ended with the archive search.
C29_Witness ==
    Len(ipfsGateways) = 0 /\ arweave.st = "rejected" /\ portrait.st = "rejected"

\* the bytes the requested identifier is the hash of
RequestedBytes == ipfsHash.cid.multihash.digest

\* C30: an index response that failed or cannot be used, a payload request
\* that failed, and a payload that hashes to the identifier but is not JSON
\* each end the archive search with a rejection, at once.
C30_OtherOutcomesReject ==
    /\ arweave.reason.kind \in RequestFailures => arweave.st = "rejected" /\ arPc = "done"
    /\ (lastMatch /\ ~Parseable(RequestedBytes))
       => arweave.st = "rejected" /\ arPc = "done"
====
